---- MODULE Spec2Model ----
(***************************************************************************)
(* A model of orangetheory.go: the snippet pattern (the struct `snippet`   *)
(* compiled by go-restructure into one regular expression), the matcher    *)
(* snippetParser.Find, and main(): fetch every listed message, match its   *)
(* snippet, accumulate the records, sort them by date key and write the    *)
(* CSV.                                                                    *)
(*                                                                         *)
(* Strings are TLA+ strings; the i-th character of s is SubSeq(s, i, i).   *)
(***************************************************************************)
EXTENDS Integers, Sequences, FiniteSets

(***************************************************************************)
(* Characters                                                              *)
(***************************************************************************)

\* U+200C (zero width non-joiner) cannot be written inside a string of a
\* module.  "~", which occurs in no snippet and in no pattern, stands for
\* that one character: it is neither a word character nor a digit.
ZWNJ == "~"

Ch(s, j) == SubSeq(s, j, j)

CharsOf(s) == { Ch(s, j) : j \in 1..Len(s) }

DigitChars == CharsOf("0123456789")

WordChars ==
  CharsOf("0123456789ABCDEFGHIJKLMNOPQRSTUVWXYZ_abcdefghijklmnopqrstuvwxyz")

\* The bytes of the characters a date key is made of ("-" and the digits),
\* in increasing order from 45.
AsciiTable == "-./0123456789"

Code(c) == 44 + (CHOOSE j \in 1..Len(AsciiTable) : Ch(AsciiTable, j) = c)

\* Go's < on strings: bytewise, a proper prefix is smaller.
RECURSIVE StrLessFrom(_, _, _)
StrLessFrom(a, b, j) ==
  IF j > Len(b) THEN FALSE
  ELSE IF j > Len(a) THEN TRUE
  ELSE IF Ch(a, j) # Ch(b, j) THEN Code(Ch(a, j)) < Code(Ch(b, j))
  ELSE StrLessFrom(a, b, j + 1)

StrLess(a, b) == StrLessFrom(a, b, 1)

(***************************************************************************)
(* The pattern: struct snippet, one entry per field in declaration order.  *)
(* name "_" is the blank (unexported) field; tag is the value of the       *)
(* field's `regexp:"..."` tag after the tag's own unquoting.               *)
(***************************************************************************)

F(name, tag) == [name |-> name, tag |-> tag]

snippetFields ==
  << F("_", "STUDIO WORKOUT SUMMARY "),
     F("City", "\\w+"),
     F("_", ", "),
     F("State", "\\w+"),
     F("_", " "),
     F("Month", "\\d+"),
     F("_", "/"),
     F("Day", "\\d+"),
     F("_", "/"),
     F("Year", "\\d+"),
     F("_", " "),
     F("Hour", "\\d+"),
     F("_", ZWNJ \o ":"),
     F("Minute", "\\d+"),
     F("_", " "),
     F("AMPM", "\\w{2}"),
     F("_", " "),
     F("Instructor", "\\w+"),
     F("_", " "),
     F("Zone1", "\\d+"),
     F("_", " "),
     F("Zone2", "\\d+"),
     F("_", " "),
     F("Zone3", "\\d+"),
     F("_", " "),
     F("Zone4", "\\d+"),
     F("_", " "),
     F("Zone5", "\\d+"),
     F("_", " MINUTES / ZONE "),
     F("Calories", "\\d+"),
     F("_", " CALORIES BURNED "),
     F("SplatPoints", "\\d+"),
     F("_", " SPLAT POINTS "),
     F("AverageHeartRate", "\\d+"),
     F("_", " AVG. HEART-RATE Peak HR: "),
     F("PeakHeartRate", "\\d+") >>

FieldNames ==
  { snippetFields[x].name : x \in 1..Len(snippetFields) } \ { "_" }

\* The zero value of struct snippet.
ZeroSnippet == [n \in FieldNames |-> ""]

(***************************************************************************)
(* Parsing one tag (regexp/syntax, Perl flags).  An atom is a literal text *)
(* or a one-character expression (\w, \d, .) with its repetition; max = 0  *)
(* stands for "no upper limit".                                            *)
(***************************************************************************)

Atom(kind, text, min, max) ==
  [kind |-> kind, text |-> text, min |-> min, max |-> max]

\* BaseAt with the escape \d read as the letter d.
BaseAtNoDigitClass(p, j) ==
  LET c == Ch(p, j) IN
  IF c = "\\" /\ j < Len(p)
  THEN LET e == Ch(p, j + 1) IN
       IF e = "w" THEN [kind |-> "word", text |-> "", len |-> 2]
       ELSE [kind |-> "lit", text |-> e, len |-> 2]
  ELSE IF c = "." THEN [kind |-> "any", text |-> "", len |-> 1]
  ELSE [kind |-> "lit", text |-> c, len |-> 1]

\* The single-character expression starting at p[j], and its length in p.
BaseAt(p, j) ==
  LET c == Ch(p, j) IN
  IF c = "\\" /\ j < Len(p)
  THEN LET e == Ch(p, j + 1) IN
       IF e = "w" THEN [kind |-> "word", text |-> "", len |-> 2]
       ELSE IF e = "d" THEN [kind |-> "digit", text |-> "", len |-> 2]
       ELSE [kind |-> "lit", text |-> e, len |-> 2]
  ELSE IF c = "." THEN [kind |-> "any", text |-> "", len |-> 1]
  ELSE [kind |-> "lit", text |-> c, len |-> 1]

DigitValue(c) == Code(c) - 48

\* The repetition operator at p[j], if any: + or {n} with one digit n.
RepeatAt(p, j) ==
  IF j <= Len(p) /\ Ch(p, j) = "+"
  THEN [min |-> 1, max |-> 0, len |-> 1]
  ELSE IF j + 2 <= Len(p) /\ Ch(p, j) = "{" /\ Ch(p, j + 1) \in DigitChars
          /\ Ch(p, j + 2) = "}"
  THEN [min |-> DigitValue(Ch(p, j + 1)), max |-> DigitValue(Ch(p, j + 1)),
        len |-> 3]
  ELSE [min |-> 1, max |-> 1, len |-> 0]

\* Adjacent unrepeated literal characters are one literal text, as the parser
\* builds them.
Once(a) == a.kind = "lit" /\ a.min = 1 /\ a.max = 1

RECURSIVE ParseFrom(_, _)
ParseFrom(p, j) ==
  IF j > Len(p) THEN << >>
  ELSE LET b == BaseAt(p, j)
           r == RepeatAt(p, j + b.len)
           a == Atom(b.kind, b.text, r.min, r.max)
           rest == ParseFrom(p, j + b.len + r.len)
       IN  IF Once(a) /\ rest # << >> /\ Once(rest[1])
           THEN << Atom("lit", a.text \o rest[1].text, 1, 1) >> \o Tail(rest)
           ELSE << a >> \o rest

Parse(p) == ParseFrom(p, 1)

(***************************************************************************)
(* restructure.MustCompile: the fields' expressions concatenated in        *)
(* declaration order, each exported field wrapped in a capture named after *)
(* it.  The program is the flat sequence of atoms, each carrying the index *)
(* of its field; no anchor is added at either end.                         *)
(***************************************************************************)

RECURSIVE CompileFrom(_, _)
CompileFrom(fields, x) ==
  IF x > Len(fields) THEN << >>
  ELSE LET as == Parse(fields[x].tag)
       IN  [j \in 1..Len(as) |->
              [kind |-> as[j].kind, text |-> as[j].text, min |-> as[j].min,
               max |-> as[j].max, fld |-> x]]
           \o CompileFrom(fields, x + 1)

Compile(fields) == CompileFrom(fields, 1)

snippetParser == Compile(snippetFields)

(***************************************************************************)
(* Matching (regexp, leftmost-first).  The expression is a concatenation   *)
(* of atoms, every repetition greedy: the match is the one that starts at  *)
(* the leftmost position from which the whole expression can match, and in *)
(* it each atom in turn takes the longest text that lets the rest match.   *)
(* Positions run from 1 to Len(s) + 1.                                     *)
(***************************************************************************)

Accepts(a, c) ==
  CASE a.kind = "word"  -> c \in WordChars
    [] a.kind = "digit" -> c \in DigitChars
    [] a.kind = "any"   -> c # "\n"
    [] a.kind = "lit"   -> c = a.text

\* How many characters from pos on atom a accepts, at most cap.
RECURSIVE RunLen(_, _, _, _)
RunLen(a, s, pos, cap) ==
  IF cap = 0 \/ pos > Len(s) \/ ~Accepts(a, Ch(s, pos)) THEN 0
  ELSE 1 + RunLen(a, s, pos + 1, cap - 1)

\* How many characters ending just before pos atom a accepts, at most cap.
RECURSIVE RunBack(_, _, _, _)
RunBack(a, s, pos, cap) ==
  IF cap = 0 \/ pos <= 1 \/ ~Accepts(a, Ch(s, pos - 1)) THEN 0
  ELSE 1 + RunBack(a, s, pos - 1, cap - 1)

Cap(a, s) == IF a.max = 0 THEN Len(s) ELSE a.max

\* The positions from which atom a alone can match up to a position of E.
Pre(a, s, E) ==
  IF Once(a)
  THEN { q - Len(a.text) : q \in { e \in E : /\ e - Len(a.text) >= 1
                                             /\ SubSeq(s, e - Len(a.text), e - 1) = a.text } }
  ELSE UNION { { q - n : n \in a.min..RunBack(a, s, q, Cap(a, s)) } : q \in E }

\* The positions atom a alone can reach from pos.
Post(a, s, pos) ==
  IF Once(a)
  THEN IF /\ pos + Len(a.text) - 1 <= Len(s)
          /\ SubSeq(s, pos, pos + Len(a.text) - 1) = a.text
       THEN { pos + Len(a.text) } ELSE {}
  ELSE { pos + n : n \in a.min..RunLen(a, s, pos, Cap(a, s)) }

Mid(a, b) == (a + b) \div 2

\* The positions from which the atoms a..b can match up to a position of E.
RECURSIVE StartsTo(_, _, _, _, _)
StartsTo(prog, s, a, b, E) ==
  IF a = b THEN Pre(prog[a], s, E)
  ELSE LET E2 == StartsTo(prog, s, Mid(a, b) + 1, b, E)
       IN  IF E2 = {} THEN {} ELSE StartsTo(prog, s, a, Mid(a, b), E2)

Largest(S) == CHOOSE q \in S : \A r \in S : r <= q

Smallest(S) == CHOOSE q \in S : \A r \in S : q <= r

\* The match of the atoms a..b that starts at pos and ends in E, as the
\* position after each atom's text; pos is one of StartsTo(prog, s, a, b, E).
RECURSIVE MatchFrom(_, _, _, _, _, _)
MatchFrom(prog, s, a, b, pos, E) ==
  IF a = b THEN << Largest(Post(prog[a], s, pos) \cap E) >>
  ELSE LET E2 == StartsTo(prog, s, Mid(a, b) + 1, b, E)
           first == MatchFrom(prog, s, a, Mid(a, b), pos, E2)
       IN  IF E2 = {} \/ first = << >> THEN << >>
           ELSE first \o MatchFrom(prog, s, Mid(a, b) + 1, b, first[Len(first)], E)

\* Search with the match tied to the first character of s.
SearchAtStart(prog, s) ==
  LET all == 1..(Len(s) + 1)
      starts == StartsTo(prog, s, 1, Len(prog), all) \cap { 1 }
  IN  IF starts = {} THEN [ok |-> FALSE, start |-> 0, ends |-> << >>]
      ELSE [ok |-> TRUE, start |-> 1,
            ends |-> MatchFrom(prog, s, 1, Len(prog), 1, all)]

\* Search with the match made to end at the end of s.
SearchToEnd(prog, s) ==
  LET last == { Len(s) + 1 }
      starts == StartsTo(prog, s, 1, Len(prog), last)
  IN  IF starts = {} THEN [ok |-> FALSE, start |-> 0, ends |-> << >>]
      ELSE [ok |-> TRUE, start |-> Smallest(starts),
            ends |-> MatchFrom(prog, s, 1, Len(prog), Smallest(starts), last)]

\* The leftmost match of prog in s.
Search(prog, s) ==
  LET all == 1..(Len(s) + 1)
      starts == StartsTo(prog, s, 1, Len(prog), all)
  IN  IF starts = {} THEN [ok |-> FALSE, start |-> 0, ends |-> << >>]
      ELSE [ok |-> TRUE, start |-> Smallest(starts),
            ends |-> MatchFrom(prog, s, 1, Len(prog), Smallest(starts), all)]

LastAtomOf(prog, fi) == CHOOSE j \in 1..Len(prog) :
  prog[j].fld = fi /\ (j = Len(prog) \/ prog[j + 1].fld # fi)

FirstAtomOf(prog, fi) == CHOOSE j \in 1..Len(prog) :
  prog[j].fld = fi /\ (j = 1 \/ prog[j - 1].fld # fi)

\* The text of field fi's capture in match hit of s.
Capture(prog, s, hit, fi) ==
  LET j1 == FirstAtomOf(prog, fi)
      from == IF j1 = 1 THEN hit.start ELSE hit.ends[j1 - 1]
  IN  SubSeq(s, from, hit.ends[LastAtomOf(prog, fi)] - 1)

FieldIndex(fields, n) == CHOOSE x \in 1..Len(fields) : fields[x].name = n

\* Regexp.Find(dest, s): no match leaves dest alone and returns false; a match
\* stores every named field's capture in dest and returns true.
Find(dest, s) ==
  LET hit == Search(snippetParser, s) IN
  IF ~hit.ok THEN [matched |-> FALSE, snippet |-> dest]
  ELSE [matched |-> TRUE,
        snippet |-> [n \in FieldNames |->
           Capture(snippetParser, s, hit, FieldIndex(snippetFields, n))]]

(***************************************************************************)
(* The sort key and the CSV rows of main()                                 *)
(***************************************************************************)

\* fmt.Sprintf("%s-%s-%s", s.Year, s.Month, s.Day)
DateKey(s) == s.Year \o "-" \o s.Month \o "-" \o s.Day

\* The number a string of digits denotes.
RECURSIVE ToNat(_, _)
ToNat(s, n) ==
  IF n = 0 THEN 0 ELSE 10 * ToNat(s, n - 1) + DigitValue(Ch(s, n))

Num(s) == ToNat(s, Len(s))

\* less comparing the dates by their numbers.
lessByNumber(xs, a, b) ==
  LET u == xs[a]
      v == xs[b]
  IN  \/ Num(u.Year) < Num(v.Year)
      \/ Num(u.Year) = Num(v.Year) /\ Num(u.Month) < Num(v.Month)
      \/ Num(u.Year) = Num(v.Year) /\ Num(u.Month) = Num(v.Month)
           /\ Num(u.Day) < Num(v.Day)

\* The less function handed to sort.Slice.
less(xs, a, b) == StrLess(DateKey(xs[a]), DateKey(xs[b]))

Arrangements(n) ==
  { p \in [1..n -> 1..n] : \A a, b \in 1..n : a # b => p[a] # p[b] }

\* sort.Slice is not stable: any arrangement without an inversion under less.
Sorted(xs) == \A a, b \in 1..Len(xs) : a < b => ~less(xs, b, a)

SortResults(xs) ==
  { ys \in { [x \in 1..Len(xs) |-> xs[p[x]]] : p \in Arrangements(Len(xs)) } :
      Sorted(ys) }

Header ==
  << "Date", "Time", "Zone 1", "Zone 2", "Zone 3", "Zone 4", "Zone 5",
     "Calories", "Average Heart Rate", "Peak Heart Rate", "Location" >>

Row(s) ==
  << s.Month \o "/" \o s.Day \o "/" \o s.Year,
     s.Hour \o ":" \o s.Minute,
     s.Zone1, s.Zone2, s.Zone3, s.Zone4, s.Zone5,
     s.Calories, s.AverageHeartRate, s.PeakHeartRate,
     s.City \o ", " \o s.State >>

\* encoding/csv: a field is quoted when it holds the delimiter, a quote, CR
\* or LF, or begins with a space; a quote inside a quoted field is doubled.
FieldNeedsQuotes(fld) ==
  /\ fld # ""
  /\ \/ \E j \in 1..Len(fld) : Ch(fld, j) \in { ",", "\"", "\r", "\n" }
     \/ Ch(fld, 1) = " "

RECURSIVE QuoteFrom(_, _)
QuoteFrom(fld, j) ==
  IF j > Len(fld) THEN ""
  ELSE (IF Ch(fld, j) = "\"" THEN "\"\"" ELSE Ch(fld, j)) \o QuoteFrom(fld, j + 1)

CsvField(fld) ==
  IF FieldNeedsQuotes(fld) THEN "\"" \o QuoteFrom(fld, 1) \o "\"" ELSE fld

RECURSIVE CsvJoin(_, _)
CsvJoin(row, x) ==
  IF x > Len(row) THEN "\n"
  ELSE (IF x > 1 THEN "," ELSE "") \o CsvField(row[x]) \o CsvJoin(row, x + 1)

\* What csv.Writer.Write puts into its buffer for one record.
CsvLine(row) == CsvJoin(row, 1)

\* The size of the bufio.Writer inside a csv.Writer.
BufSize == 4096

(***************************************************************************)
(* Inputs                                                                  *)
(***************************************************************************)

\* The example of the comment above struct snippet (U+200C before the colon).
Example ==
  "STUDIO WORKOUT SUMMARY Bothell, WA 06/13/2021 12" \o ZWNJ \o
  ":15 PM Tiffany 15 0 0 0 0 MINUTES / ZONE 55 CALORIES BURNED 0 SPLAT POINTS 75 AVG. HEART-RATE Peak HR: 80"

DefaultFrom == "OTbeatReport@orangetheoryfitness.com"

\* A workout summary of the shape the pattern describes.
Summary(month, day, year, instructor) ==
  "STUDIO WORKOUT SUMMARY Bothell, WA " \o month \o "/" \o day \o "/" \o year
    \o " 12" \o ZWNJ \o ":15 PM " \o instructor
    \o " 15 0 0 0 0 MINUTES / ZONE 55 CALORIES BURNED 0 SPLAT POINTS 75 AVG. HEART-RATE Peak HR: 80"

\* The snippets a mailbox of the batch specification holds.
BatchSnippets ==
  { Summary("09", "13", "2021", "Tiffany"),
    Summary("09", "13", "2021", "Max"),
    Summary("10", "1", "2021", "Tiffany"),
    Summary("2", "5", "2021", "Tiffany"),
    "Your class is booked for tomorrow at 6" }

MaxMessages == 3

SeqsUpTo(S, n) == UNION { [1..x -> S] : x \in 0..n }

\* The command line: each flag absent (<< >>) or given with a value.
CmdLines ==
  [ from : { << >>, << "coach@example.com" >> },
    output : { << >>, << "out.csv" >> } ]

\* The literal example of section 8 of the specification, character for
\* character: no U+200C stands between the hour and the colon.
SpecExample ==
  "STUDIO WORKOUT SUMMARY Bothell, WA 06/13/2021 12:15 PM Tiffany 15 0 0 0 0 MINUTES / ZONE 55 CALORIES BURNED 0 SPLAT POINTS 75 AVG. HEART-RATE Peak HR: 80"

ExampleRecord ==
  [ City |-> "Bothell", State |-> "WA", Month |-> "06", Day |-> "13",
    Year |-> "2021", Hour |-> "12", Minute |-> "15", AMPM |-> "PM",
    Instructor |-> "Tiffany", Zone1 |-> "15", Zone2 |-> "0", Zone3 |-> "0",
    Zone4 |-> "0", Zone5 |-> "0", Calories |-> "55", SplatPoints |-> "0",
    AverageHeartRate |-> "75", PeakHeartRate |-> "80" ]

\* The example field by field: a named field's text is its value, a blank
\* field's text is its separator as written in its tag.
ExampleParts ==
  [x \in 1..Len(snippetFields) |->
     IF snippetFields[x].name = "_" THEN snippetFields[x].tag
     ELSE ExampleRecord[snippetFields[x].name]]

RECURSIVE Join(_, _)
Join(parts, x) ==
  IF x > Len(parts) THEN "" ELSE parts[x] \o Join(parts, x + 1)

Separators == { x \in 1..Len(snippetFields) : snippetFields[x].name = "_" }

\* The characters put in the place of a separator's character.
Substitutes == { "x", "7", "," }

ReplaceChar(s, j, c) == SubSeq(s, 1, j - 1) \o c \o SubSeq(s, j + 1, Len(s))

\* The example with one character of one separator altered.
AlteredInputs ==
  { Join([ExampleParts EXCEPT ![x] = ReplaceChar(ExampleParts[x], j, c)], 1) :
      <<x, j, c>> \in { y \in Separators \X (1..26) \X Substitutes :
                          /\ y[2] <= Len(ExampleParts[y[1]])
                          /\ Ch(ExampleParts[y[1]], y[2]) # y[3] } }

\* The example with one separator missing.
MissingInputs ==
  { Join([ExampleParts EXCEPT ![x] = ""], 1) : x \in Separators }

MaxTail == 4

MaxLead == 3

TailSources == { " bpm, well done", "5 bpm", "03", ". See you", " 7 more" }

LeadSources == { "Fwd: ", "week 7", "STUDIO " }

Shorter(a, b) == IF a < b THEN a ELSE b

Tails ==
  UNION { { SubSeq(src, 1, n) : n \in 1..Shorter(MaxTail, Len(src)) } :
            src \in TailSources }

Leads ==
  UNION { { SubSeq(src, Len(src) - n + 1, Len(src)) :
              n \in 1..Shorter(MaxLead, Len(src)) } : src \in LeadSources }

TailInputs == { Example \o tl : tl \in Tails }

LeadInputs == { ld \o Example : ld \in Leads }

\* The snippets the matcher specification applies the pattern to.
MatchInputs ==
  { Example, SpecExample } \cup TailInputs \cup LeadInputs
    \cup AlteredInputs \cup MissingInputs

\* main hands every call of Find a fresh zero snippet (line 167): what the
\* call yields on each snippet a mailbox can hold, computed once.
Found ==
  [s \in MatchInputs \cup BatchSnippets |-> Find(ZeroSnippet, s)]

(***************************************************************************)
(* main()                                                                  *)
(***************************************************************************)

VARIABLES
  cmdline,   \* the flags given
  mailbox,   \* the snippets of the messages the mail service lists
  fs,        \* the file named by -o: whether it exists, and its contents
  args,      \* args.From, args.Output
  query,     \* the search query sent to the mail service
  messages,  \* messages.Messages, each entry its message's snippet
  i,         \* the position of the range loop
  m,         \* m.Snippet of the message just fetched
  matched,   \* the loop body's matched
  snippet,   \* the loop body's snippet
  snippets,  \* the accumulated records
  f,         \* the output file as opened
  wbuf,      \* the csv.Writer's buffer
  rowi,      \* the position of the loop writing the rows
  stdout,    \* what was written to standard output, in order
  fatal,     \* which log.Fatal ended the program, or ""
  pc

vars == << cmdline, mailbox, fs, args, query, messages, i, m, matched, snippet,
           snippets, f, wbuf, rowi, stdout, fatal, pc >>

\* f before it is opened and after it is closed.
NoFile == [name |-> "", flag |-> ""]

InitCommon ==
  /\ cmdline \in CmdLines
  /\ fs \in { [exists |-> FALSE, data |-> ""],
              [exists |-> TRUE, data |-> ""],
              [exists |-> TRUE, data |-> "old\n"] }
  /\ (cmdline.output = << >> => fs = [exists |-> FALSE, data |-> ""])
  /\ args = [From |-> "", Output |-> ""]
  /\ query = ""
  /\ messages = << >>
  /\ i = 1
  /\ m = ""
  /\ matched = FALSE
  /\ snippet = ZeroSnippet
  /\ snippets = << >>
  /\ f = NoFile
  /\ wbuf = ""
  /\ rowi = 1
  /\ stdout = << >>
  /\ fatal = ""
  /\ pc = "start"

Init ==
  /\ mailbox \in SeqsUpTo(BatchSnippets, MaxMessages)
  /\ InitCommon

\* log.Fatalf: the message is logged and the process exits at once; no
\* deferred call runs.
Fatal(why) ==
  /\ fatal' = why
  /\ pc' = "exit"

\* Lines 129-151: the flags are parsed over the default sender; the OAuth
\* configuration, the token and the mail service are set up.
Start ==
  /\ pc = "start"
  /\ args' = [From |-> IF cmdline.from = << >> THEN DefaultFrom
                       ELSE cmdline.from[1],
              Output |-> IF cmdline.output = << >> THEN ""
                         ELSE cmdline.output[1]]
  /\ pc' = "list"
  /\ UNCHANGED << cmdline, mailbox, fs, query, messages, i, m, matched,
                  snippet, snippets, f, wbuf, rowi, stdout, fatal >>

StartFail ==
  /\ pc = "start"
  /\ Fatal("setup")
  /\ UNCHANGED << cmdline, mailbox, fs, args, query, messages, i, m, matched,
                  snippet, snippets, f, wbuf, rowi, stdout >>

\* Lines 154-157: the messages from the sender are listed.
List ==
  /\ pc = "list"
  /\ query' = "from:" \o args.From
  /\ messages' = mailbox
  /\ pc' = "loop"
  /\ UNCHANGED << cmdline, mailbox, fs, args, i, m, matched, snippet,
                  snippets, f, wbuf, rowi, stdout, fatal >>

ListFail ==
  /\ pc = "list"
  /\ query' = "from:" \o args.From
  /\ Fatal("list")
  /\ UNCHANGED << cmdline, mailbox, fs, args, messages, i, m, matched,
                  snippet, snippets, f, wbuf, rowi, stdout >>

\* Lines 161-165: the next message is fetched.
Fetch ==
  /\ pc = "loop"
  /\ i <= Len(messages)
  /\ m' = messages[i]
  /\ pc' = "find"
  /\ UNCHANGED << cmdline, mailbox, fs, args, query, messages, i, matched,
                  snippet, snippets, f, wbuf, rowi, stdout, fatal >>

FetchFail ==
  /\ pc = "loop"
  /\ i <= Len(messages)
  /\ Fatal("fetch")
  /\ UNCHANGED << cmdline, mailbox, fs, args, query, messages, i, m, matched,
                  snippet, snippets, f, wbuf, rowi, stdout >>

\* Lines 167-168: a fresh snippet, and the pattern applied to m.Snippet.
FindStep ==
  /\ pc = "find"
  /\ LET r == Found[m] IN
       /\ matched' = r.matched
       /\ snippet' = r.snippet
  /\ pc' = "branch"
  /\ UNCHANGED << cmdline, mailbox, fs, args, query, messages, i, m,
                  snippets, f, wbuf, rowi, stdout, fatal >>

\* Skip leaving the loop instead of going on.
SkipBreak ==
  /\ pc = "branch"
  /\ ~matched
  /\ stdout' = Append(stdout,
       [by |-> "fmt.Printf",
        text |-> "snippet did not match pattern, ignoring: " \o m \o "\n"])
  /\ i' = Len(messages) + 1
  /\ pc' = "loop"
  /\ UNCHANGED << cmdline, mailbox, fs, args, query, messages, m, matched,
                  snippet, snippets, f, wbuf, rowi, fatal >>

\* Lines 169-172: no match is reported on standard output and the loop goes on.
Skip ==
  /\ pc = "branch"
  /\ ~matched
  /\ stdout' = Append(stdout,
       [by |-> "fmt.Printf",
        text |-> "snippet did not match pattern, ignoring: " \o m \o "\n"])
  /\ i' = i + 1
  /\ pc' = "loop"
  /\ UNCHANGED << cmdline, mailbox, fs, args, query, messages, m, matched,
                  snippet, snippets, f, wbuf, rowi, fatal >>

\* Accumulate writing the record's row at once.
AccumulateAndWrite ==
  /\ pc = "branch"
  /\ matched
  /\ snippets' = Append(snippets, snippet)
  /\ wbuf' = wbuf \o CsvLine(Row(snippet))
  /\ i' = i + 1
  /\ pc' = "loop"
  /\ UNCHANGED << cmdline, mailbox, fs, args, query, messages, m, matched,
                  snippet, f, rowi, stdout, fatal >>

\* Line 174: a match is accumulated.
Accumulate ==
  /\ pc = "branch"
  /\ matched
  /\ snippets' = Append(snippets, snippet)
  /\ i' = i + 1
  /\ pc' = "loop"
  /\ UNCHANGED << cmdline, mailbox, fs, args, query, messages, m, matched,
                  snippet, f, wbuf, rowi, stdout, fatal >>

\* Lines 177-184: after the last message the records are sorted by date key.
Sort ==
  /\ pc = "loop"
  /\ i > Len(messages)
  /\ snippets' \in SortResults(snippets)
  /\ pc' = "open"
  /\ UNCHANGED << cmdline, mailbox, fs, args, query, messages, i, m, matched,
                  snippet, f, wbuf, rowi, stdout, fatal >>

\* Lines 187-195: the output is standard output, or the file named by -o,
\* which os.Open opens for reading only.
OpenStdout ==
  /\ pc = "open"
  /\ args.Output = ""
  /\ pc' = "header"
  /\ UNCHANGED << cmdline, mailbox, fs, args, query, messages, i, m, matched,
                  snippet, snippets, f, wbuf, rowi, stdout, fatal >>

OpenFile ==
  /\ pc = "open"
  /\ args.Output # ""
  /\ fs.exists
  /\ f' = [name |-> args.Output, flag |-> "O_RDONLY"]
  /\ pc' = "header"
  /\ UNCHANGED << cmdline, mailbox, fs, args, query, messages, i, m, matched,
                  snippet, snippets, wbuf, rowi, stdout, fatal >>

OpenFail ==
  /\ pc = "open"
  /\ args.Output # ""
  /\ ~fs.exists
  /\ Fatal("open")
  /\ UNCHANGED << cmdline, mailbox, fs, args, query, messages, i, m, matched,
                  snippet, snippets, f, wbuf, rowi, stdout >>

\* A write of text to the output: standard output takes it; a file takes it
\* only when it was opened for writing, and the error of a refused write is
\* dropped by the caller.
Emit(text) ==
  IF f = NoFile
  THEN /\ stdout' = Append(stdout, [by |-> "csv.Writer", text |-> text])
       /\ fs' = fs
  ELSE /\ stdout' = stdout
       /\ fs' = IF f.flag \in { "O_WRONLY", "O_RDWR" }
                THEN [fs EXCEPT !.data = fs.data \o text]
                ELSE fs

\* csv.Writer.Write: the line goes into the buffer, which is written out
\* when the line does not fit.
WriteLine(line) ==
  IF Len(wbuf) + Len(line) > BufSize
  THEN /\ Emit(wbuf)
       /\ wbuf' = line
  ELSE /\ wbuf' = wbuf \o line
       /\ UNCHANGED << stdout, fs >>

\* Lines 198-213: the header.
WriteHeader ==
  /\ pc = "header"
  /\ WriteLine(CsvLine(Header))
  /\ rowi' = 1
  /\ pc' = "rows"
  /\ UNCHANGED << cmdline, mailbox, args, query, messages, i, m, matched,
                  snippet, snippets, f, fatal >>

\* Lines 215-229: one row per record.
WriteRow ==
  /\ pc = "rows"
  /\ rowi <= Len(snippets)
  /\ WriteLine(CsvLine(Row(snippets[rowi])))
  /\ rowi' = rowi + 1
  /\ UNCHANGED << cmdline, mailbox, args, query, messages, i, m, matched,
                  snippet, snippets, f, fatal, pc >>

\* main returns: the deferred w.Flush() runs, then the deferred f.Close().
Return ==
  /\ pc = "rows"
  /\ rowi > Len(snippets)
  /\ Emit(wbuf)
  /\ wbuf' = ""
  /\ f' = NoFile
  /\ pc' = "done"
  /\ UNCHANGED << cmdline, mailbox, args, query, messages, i, m, matched,
                  snippet, snippets, rowi, fatal >>

Next ==
  \/ Start \/ StartFail \/ List \/ ListFail
  \/ Fetch \/ FetchFail \/ FindStep \/ Skip \/ Accumulate \/ Sort
  \/ OpenStdout \/ OpenFile \/ OpenFail
  \/ WriteHeader \/ WriteRow \/ Return

Spec == Init /\ [][Next]_vars

\* The matcher specification: the mailbox holds one message, whose snippet
\* is any of MatchInputs.
NoFlags == [from |-> << >>, output |-> << >>]

MatchInit ==
  /\ mailbox \in { << s >> : s \in MatchInputs }
  /\ InitCommon
  /\ (mailbox # << Example >> => cmdline = NoFlags)

MatchSpec == MatchInit /\ [][Next]_vars

(***************************************************************************)
(* The claims                                                              *)
(***************************************************************************)

\* The pattern has just been applied to m.Snippet.
Applied == pc = "branch"

\* C1, as stated: the literal example of section 8 yields Matched with the
\* listed fields.
C1_SpecLiteralMatches ==
  (Applied /\ m = SpecExample) => (matched /\ snippet = ExampleRecord)

\* C1, amended: the example with U+200C between the hour and the colon, as
\* in the comment above struct snippet, yields Matched with the listed
\* fields; the literal of section 8, which lacks that character, yields
\* NotMatched.
C1_ExampleMatches ==
  /\ (Applied /\ m = Example) => (matched /\ snippet = ExampleRecord)
  /\ (Applied /\ m = SpecExample) => ~matched

C1_Witness == Applied /\ m = Example /\ matched

\* The result of the pattern on the input that lacks the last n characters
\* of m.
Before(n) == Find(ZeroSnippet, SubSeq(m, 1, Len(m) - n))

Cuts == 1..Shorter(MaxTail, Len(m))

\* C2, as stated: when s yields Matched(r), s followed by any text t yields
\* Matched(r) too (here m = s \o t, t the last n characters of m).
C2_TrailingTextIgnored ==
  Applied =>
    \A n \in Cuts :
      Before(n).matched => (matched /\ snippet = Before(n).snippet)

\* C2, amended: when s yields Matched(r), s followed by any text t that
\* does not begin with a decimal digit yields Matched(r) too.
C2_NonDigitTailIgnored ==
  Applied =>
    \A n \in Cuts :
      (Ch(m, Len(m) - n + 1) \notin DigitChars /\ Before(n).matched)
        => (matched /\ snippet = Before(n).snippet)

C2_Witness ==
  Applied /\ m = Example \o " bpm" /\ matched /\ snippet = ExampleRecord

\* C3, as stated: an input in which the sentence occurs only after leading
\* characters yields NotMatched and no record is accumulated.
C3_OnlyAtStart ==
  /\ (Applied /\ m \in LeadInputs) => ~matched
  /\ (pc = "loop" /\ i = 2 /\ messages[1] \in LeadInputs) => snippets = << >>

\* C3, amended: the match need not start at position 0.  An input in which
\* the sentence occurs after leading characters yields Matched with the
\* fields of that occurrence, and its record is accumulated.
C3_LeftmostAnywhere ==
  /\ (Applied /\ m \in LeadInputs) => (matched /\ snippet = ExampleRecord)
  /\ (pc = "loop" /\ i = 2 /\ messages[1] \in LeadInputs)
       => snippets = << ExampleRecord >>

C3_Witness ==
  pc = "loop" /\ i = 2 /\ messages[1] = "d: " \o Example
    /\ snippets = << ExampleRecord >>

\* C4: an otherwise conformant input in which one separator is missing or
\* has one character altered yields NotMatched.
C4_SeparatorsLiteral ==
  (Applied /\ m \in AlteredInputs \cup MissingInputs) => ~matched

\* The loop over the messages has ended without a failed fetch.
LoopDone ==
  pc \in { "open", "header", "rows", "done" } \/ (pc = "exit" /\ fatal = "open")

NoMatchLines == { j \in 1..Len(stdout) : stdout[j].by = "fmt.Printf" }

NonMatching == { j \in 1..Len(messages) : ~Found[messages[j]].matched }

SameRecords(xs, ys) ==
  /\ Len(xs) = Len(ys)
  /\ \E p \in Arrangements(Len(xs)) : \A j \in 1..Len(xs) : xs[j] = ys[p[j]]

RECURSIVE MatchedRecords(_, _)
MatchedRecords(msgs, j) ==
  IF j > Len(msgs) THEN << >>
  ELSE (IF Found[msgs[j]].matched THEN << Found[msgs[j]].snippet >>
        ELSE << >>) \o MatchedRecords(msgs, j + 1)

\* C5: with N messages fetched of which M do not match, the loop runs over
\* every message, each non-matching snippet is logged and skipped, and N - M
\* records are accumulated, one per matching message.
C5_BatchSkipsNonMatching ==
  LoopDone =>
    /\ i = Len(messages) + 1
    /\ Cardinality(NoMatchLines) = Cardinality(NonMatching)
    /\ \A j \in NonMatching : \E l \in NoMatchLines :
         stdout[l].text =
           "snippet did not match pattern, ignoring: " \o messages[j] \o "\n"
    /\ Len(snippets) = Len(messages) - Cardinality(NonMatching)
    /\ SameRecords(snippets, MatchedRecords(messages, 1))

C5_Witness ==
  /\ LoopDone
  /\ Len(messages) = 3
  /\ Cardinality(NonMatching) = 1
  /\ Len(snippets) = 2

NonDecreasing(xs) ==
  \A a, b \in 1..Len(xs) : a < b => ~StrLess(DateKey(xs[b]), DateKey(xs[a]))

\* With equal Year: "09" before "10" before "2".
MonthsAsStrings(xs) ==
  \A a, b \in 1..Len(xs) :
    (a < b /\ xs[a].Year = xs[b].Year) =>
      /\ ~(xs[a].Month = "2" /\ xs[b].Month \in { "09", "10" })
      /\ ~(xs[a].Month = "10" /\ xs[b].Month = "09")

ExpectedRow(s) ==
  << s.Month \o "/" \o s.Day \o "/" \o s.Year, s.Hour \o ":" \o s.Minute,
     s.Zone1, s.Zone2, s.Zone3, s.Zone4, s.Zone5, s.Calories,
     s.AverageHeartRate, s.PeakHeartRate, s.City \o ", " \o s.State >>

RECURSIVE ExpectedRows(_, _)
ExpectedRows(xs, j) ==
  IF j > Len(xs) THEN ""
  ELSE CsvLine(ExpectedRow(xs[j])) \o ExpectedRows(xs, j + 1)

ExpectedCsv ==
  CsvLine(<< "Date", "Time", "Zone 1", "Zone 2", "Zone 3", "Zone 4", "Zone 5",
             "Calories", "Average Heart Rate", "Peak Heart Rate",
             "Location" >>)
    \o ExpectedRows(snippets, 1)

RECURSIVE TextOf(_, _, _)
TextOf(out, by, j) ==
  IF j > Len(out) THEN ""
  ELSE (IF out[j].by \in by THEN out[j].text ELSE "") \o TextOf(out, by, j + 1)

\* What the csv.Writer wrote to standard output.
CsvOnStdout == TextOf(stdout, { "csv.Writer" }, 1)

\* Where the output is to go: the file named by -o, or standard output.
OutputText ==
  IF args.Output # "" THEN fs.data
  ELSE TextOf(stdout, { "csv.Writer", "fmt.Printf" }, 1)

\* C7: the CSV output is the header row, first and once, then one row per
\* accumulated record in sorted order, each built from the record's strings.
C7_CsvOutput == pc = "done" => OutputText = ExpectedCsv

\* C9: without -o the header and the rows go to standard output, with -o
\* they go to the file at that path; the sender filter is the default
\* address unless a sender is given.
C9_OutputFollowsFlag ==
  pc = "done" =>
    /\ cmdline.output = << >> => CsvOnStdout = ExpectedCsv
    /\ cmdline.output # << >> =>
         (fs.data = ExpectedCsv /\ CsvOnStdout = "")
    /\ query = "from:" \o (IF cmdline.from = << >>
                            THEN "OTbeatReport@orangetheoryfitness.com"
                            ELSE cmdline.from[1])

\* What the csv.Writer writes reaches standard output whole when no -o is
\* given (the part of C7 and C9 the code keeps).
CsvReachesStdout ==
  (pc = "done" /\ cmdline.output = << >>) => CsvOnStdout = ExpectedCsv

\* Nothing of the CSV exists: not in the writer's buffer, not on standard
\* output, not in the file.
NoCsv ==
  /\ wbuf = ""
  /\ CsvOnStdout = ""
  /\ fs.data \in { "", "old\n" }

\* C10: no CSV output exists before every message is fetched and matched
\* and the records are sorted; a failed fetch ends the program with neither
\* the header nor a row written, whatever matched before.
C10_NoOutputBeforeBatchEnds ==
  /\ pc \in { "start", "list", "loop", "find", "branch", "open" } => NoCsv
  /\ pc = "exit" => NoCsv

C10_Witness ==
  pc = "exit" /\ fatal = "fetch" /\ Len(snippets) >= 1 /\ NoCsv

====
